---- MODULE Spec2Model ----
(***************************************************************************)
(* Model of the crossdev::fs library (Path, File, Directory) against a     *)
(* modelled host filesystem, in its POSIX (filesystem_unix.cpp) and its    *)
(* Windows (filesystem_win.cpp) implementation.                            *)
(*                                                                         *)
(* A std::string is a sequence of one-character strings.  The host         *)
(* filesystem is a function from keys (sequences of name segments) to      *)
(* entries.                                                                *)
(***************************************************************************)
EXTENDS Integers, Sequences, FiniteSets, TLC

VARIABLES host,      \* "posix" or "win": which implementation file is compiled
          raw,       \* the raw std::string handed to the Path constructor
          pth,       \* Path::m_path of the Path value under study
          prev,      \* m_path of the Path value the last operation started from
          pathOp,    \* how pth was made: "none", "construct", "reconstruct", "parent",
                     \* "list", "roundtrip"
          fs,        \* the host filesystem: key -> entry
          noOpen,    \* directories the host refuses to open for enumeration
          noDelete,  \* entries the host refuses to unlink / rmdir
          noSpace,   \* the host has no room left to store file data
          op,        \* the library operation called last (or still running)
          stack,     \* activation records of Directory::remove, innermost last
          result,    \* "none", "running", "ok" (returned) or "error" (threw)
          snap,      \* the filesystem as it was when the operation was called
          log,       \* host calls the running operation has issued
          listed     \* the vector Directory::list returned

pathVars == <<raw, pth, prev, pathOp>>

fsVars == <<fs, noOpen, noDelete, noSpace, op, stack, result, snap, log, listed>>

vars == <<host, raw, pth, prev, pathOp, fs, noOpen, noDelete, noSpace, op, stack, result,
          snap, log, listed>>

----------------------------------------------------------------------------
(* Bounds *)

\* longest raw string handed to the Path constructor
MaxLen == 4

\* characters of raw strings: a name character and the two separators
Chars == {"a", "/", "\\"}

Hosts == {"posix", "win"}

RECURSIVE StringsUpTo(_)
StringsUpTo(n) ==
    IF n = 0 THEN {<<>>}
    ELSE LET S == StringsUpTo(n - 1)
         IN  S \cup {Append(s, c) : s \in {t \in S : Len(t) = n - 1}, c \in Chars}

RawStrings == StringsUpTo(MaxLen)

----------------------------------------------------------------------------
(* std::string helpers *)

\* std::replace(begin, end, from, to)
Replace(s, from, to) == [i \in 1..Len(s) |-> IF s[i] = from THEN to ELSE s[i]]

\* std::string::find_last_of(set); positions are 1-based here, 0 is npos
FindLastOf(s, set) ==
    LET hits == {i \in 1..Len(s) : s[i] \in set}
    IN  IF hits = {} THEN 0 ELSE CHOOSE i \in hits : \A j \in hits : j <= i

\* std::string::substr(from) with a 1-based from
SubstrFrom(s, from) == SubSeq(s, from, Len(s))

----------------------------------------------------------------------------
(* Path *)

\* Path::separator()
separator_unix == "/"

separator_win == "\\"

separator(h) == IF h = "posix" THEN separator_unix ELSE separator_win

\* Path::Path(const std::string&), POSIX: backslashes become slashes, then
\* ONE trailing slash is popped when the string is longer than one character
Path_unix(s) ==
    LET m == Replace(s, "\\", "/")
    IN  IF Len(m) > 1 /\ m[Len(m)] = "/" THEN SubSeq(m, 1, Len(m) - 1) ELSE m

\* Path::Path(const std::string&), Windows: slashes become backslashes, nothing stripped
Path_win(s) == Replace(s, "/", "\\")

Path(h, s) == IF h = "posix" THEN Path_unix(s) ELSE Path_win(s)

\* Path::parent(), POSIX
parent_unix(m) ==
    LET pos == FindLastOf(m, {"/"})
    IN  IF pos = 0 THEN Path_unix(<<".">>)
        ELSE IF pos = 1 THEN Path_unix(<<"/">>)
        ELSE Path_unix(SubSeq(m, 1, pos - 1))

\* Path::parent(), Windows
parent_win(m) ==
    LET pos == FindLastOf(m, {"\\", "/"})
    IN  IF pos = 0 THEN Path_win(<<>>)
        ELSE Path_win(SubSeq(m, 1, pos - 1))

parent(h, m) == IF h = "posix" THEN parent_unix(m) ELSE parent_win(m)

\* Path::filename(), POSIX
filename_unix(m) ==
    LET pos == FindLastOf(m, {"/"})
    IN  IF pos = 0 THEN m ELSE SubstrFrom(m, pos + 1)

\* Path::filename(), Windows
filename_win(m) ==
    LET pos == FindLastOf(m, {"\\", "/"})
    IN  IF pos = 0 THEN m ELSE SubstrFrom(m, pos + 1)

filename(h, m) == IF h = "posix" THEN filename_unix(m) ELSE filename_win(m)

----------------------------------------------------------------------------
(* How the host reads a path string *)

\* characters the host treats as separators when it resolves a path
HostSeps(h) == IF h = "posix" THEN {"/"} ELSE {"\\", "/"}

\* the segments of s between separators, empty segments included
RECURSIVE Split(_, _)
Split(s, seps) ==
    LET hits == {i \in 1..Len(s) : s[i] \in seps}
    IN  IF hits = {} THEN <<s>>
        ELSE LET i == CHOOSE k \in hits : \A j \in hits : k <= j
             IN  <<SubSeq(s, 1, i - 1)>> \o Split(SubSeq(s, i + 1, Len(s)), seps)

\* s without its empty and "." segments
RECURSIVE Squeeze(_)
Squeeze(segs) ==
    IF segs = <<>> THEN <<>>
    ELSE IF Head(segs) = <<>> \/ Head(segs) = <<".">> THEN Squeeze(Tail(segs))
    ELSE <<Head(segs)>> \o Squeeze(Tail(segs))

\* the host starts at the root when the string begins with a separator,
\* at the current directory otherwise
IsAbsolute(h, s) == Len(s) > 0 /\ s[1] \in HostSeps(h)

\* the location a string denotes: the starting point and the segments walked
Location(h, s) == [abs |-> IsAbsolute(h, s), segs |-> Squeeze(Split(s, HostSeps(h)))]

\* s denotes the root: the walk starts at the root and takes no segment
DenotesRoot(h, s) == Location(h, s) = [abs |-> TRUE, segs |-> <<>>]

EndsInSeparator(h, s) == Len(s) > 0 /\ s[Len(s)] \in {"/", "\\"}

----------------------------------------------------------------------------
(* The host filesystem *)

\* deepest level of an entry below the working directory's entry "d"
MaxDepth == 3

\* most entries the filesystem holds at once
MaxEntries == 4

\* most entries the host refuses to open or to delete at once
MaxDenied == 1

\* names the host can hand back from an enumeration
Names == {<<"a">>, <<"b">>}

Dot == <<".">>

DotDot == <<".", ".">>

\* the directory the operations work in, an entry of the working directory
TopName == <<"d">>

RECURSIVE KeysUpTo(_)
KeysUpTo(n) ==
    IF n = 0 THEN {<<TopName>>}
    ELSE LET S == KeysUpTo(n - 1)
         IN  S \cup {Append(k, name) : k \in {t \in S : Len(t) = n}, name \in Names}

Keys == KeysUpTo(MaxDepth)

NoEntry == [kind |-> "none", data |-> <<>>]

DirEntry == [kind |-> "dir", data |-> <<>>]

FileEntry(c) == [kind |-> "file", data |-> c]

\* the contents writeText writes
TextA == <<"x">>

\* a symbolic link; data is the key of its target. On Windows a link made
\* for a directory (a junction, a directory link) is an entry of its own kind
LinkKinds == {"link", "dirlink"}

LinkEntry(kind, target) == [kind |-> kind, data |-> target]

ParentKey(key) == SubSeq(key, 1, Len(key) - 1)

\* the entry stored under a key; the working directory itself always exists
Raw(f, key) ==
    IF key = <<>> THEN DirEntry
    ELSE IF key \in DOMAIN f THEN f[key]
    ELSE NoEntry

\* the key a host call goes on from when it has reached the entry under key:
\* the target of a link, else key
Through(f, key) == IF Raw(f, key).kind \in LinkKinds THEN Raw(f, key).data ELSE key

RECURSIVE Canon(_, _)
\* the key a host call reaches for key: the links among the names that lead
\* to its last name are followed
Canon(f, key) ==
    IF Len(key) <= 1 THEN key
    ELSE Append(Through(f, Canon(f, ParentKey(key))), key[Len(key)])

\* the key reached when a link under the last name is followed as well
Follow(f, key) == Through(f, Canon(f, key))

\* the entry under a key, a link as itself
Lookup(f, key) == Raw(f, Canon(f, key))

KeyOf(h, s) == Location(h, s).segs

\* lstat: the entry a string names, a link as itself
Lstat(h, f, s) ==
    IF s = <<>> \/ IsAbsolute(h, s) THEN NoEntry ELSE Lookup(f, KeyOf(h, s))

\* the entry a string names once every link is followed, as stat, opendir,
\* FindFirstFileA and the opening of a file do
Resolved(h, f, s) ==
    IF s = <<>> \/ IsAbsolute(h, s) THEN NoEntry ELSE Raw(f, Follow(f, KeyOf(h, s)))

\* what the host's metadata query finds for a string: stat follows links,
\* GetFileAttributesA answers for the link itself
Stat(h, f, s) ==
    IF h = "posix" THEN Resolved(h, f, s)
    ELSE LET e == Lstat(h, f, s)
         IN  IF e.kind = "dirlink" THEN DirEntry
             ELSE IF e.kind = "link" THEN FileEntry(<<>>)
             ELSE e

\* the names of the entries of the directory reached under key
HostChildren(f, key) ==
    LET dir == Follow(f, key)
    IN  {name \in Names : Raw(f, Append(dir, name)).kind # "none"}

EntryCount(f) == Cardinality({k \in DOMAIN f : f[k].kind # "none"})

RECURSIVE Join(_, _)
Join(key, sep) ==
    IF Len(key) = 0 THEN <<>>
    ELSE IF Len(key) = 1 THEN key[1]
    ELSE key[1] \o <<sep>> \o Join(Tail(key), sep)

\* the orders in which the host may hand out the entries of a directory:
\* the names in any order, with "." and ".." together at any place among them
NameOrders ==
    LET n == Cardinality(Names)
    IN  {o \in [1..n -> Names] : \A i, j \in 1..n : o[i] = o[j] => i = j}

EnumOrders ==
    {SubSeq(o, 1, at) \o <<Dot, DotDot>> \o SubSeq(o, at + 1, Len(o)) :
        o \in NameOrders, at \in 0..Cardinality(Names)}

\* the stream readdir / FindNextFile hands out for the directory under key
ReadDir(f, key, ord) ==
    LET present(name) == name \in {Dot, DotDot} \/ name \in HostChildren(f, key)
    IN  SelectSeq(ord, present)

\* opendir / FindFirstFile succeeds
OpenDirOk(h, f, no, m) ==
    Resolved(h, f, m).kind = "dir" /\ Follow(f, KeyOf(h, m)) \notin no

\* Path::isDirectory(), Path::isFile(), Path::exists()
isDirectory(h, f, m) == Stat(h, f, m).kind = "dir"

isFile(h, f, m) == Stat(h, f, m).kind = "file"

exists(h, f, m) == Stat(h, f, m).kind # "none"

\* File::exists(), Directory::exists()
File_exists(h, f, m) == exists(h, f, m) /\ isFile(h, f, m)

Directory_exists(h, f, m) == exists(h, f, m) /\ isDirectory(h, f, m)

----------------------------------------------------------------------------
(* Directory::list *)

\* slip: only the self entry is dropped
SkipsEntry_dotOnly(name) == name = Dot

\* the test of the loop body that drops the self and parent entries
SkipsEntry(name) == name = Dot \/ name = DotDot

RECURSIVE list_unix(_, _, _, _, _), list_loop_unix(_, _, _, _, _, _)
\* slip: a sub-directory's listing is inserted before the sub-directory's own entry
list_loop_unix_postOrder(f, no, m, recursive, ord, entries) ==
    IF entries = <<>> THEN <<>>
    ELSE LET name == Head(entries)
             rest == list_loop_unix(f, no, m, recursive, ord, Tail(entries))
         IN  IF SkipsEntry(name) THEN rest
             ELSE LET fullPath == Path_unix(m \o <<"/">> \o name)
                  IN  (IF recursive /\ isDirectory("posix", f, fullPath)
                       THEN list_unix(f, no, fullPath, TRUE, ord)
                       ELSE <<>>)
                      \o <<fullPath>>
                      \o rest

\* the while loop over readdir
list_loop_unix(f, no, m, recursive, ord, entries) ==
    IF entries = <<>> THEN <<>>
    ELSE LET name == Head(entries)
             rest == list_loop_unix(f, no, m, recursive, ord, Tail(entries))
         IN  IF SkipsEntry(name) THEN rest
             ELSE LET fullPath == Path_unix(m \o <<"/">> \o name)
                  IN  <<fullPath>>
                      \o (IF recursive /\ isDirectory("posix", f, fullPath)
                          THEN list_unix(f, no, fullPath, TRUE, ord)
                          ELSE <<>>)
                      \o rest

\* Directory::list(recursive), POSIX
list_unix(f, no, m, recursive, ord) ==
    IF ~OpenDirOk("posix", f, no, m) THEN <<>>
    ELSE list_loop_unix(f, no, m, recursive, ord, ReadDir(f, KeyOf("posix", m), ord))

RECURSIVE list_win(_, _, _, _, _), list_loop_win(_, _, _, _, _, _)
\* the do-while loop over FindNextFileA; the directory test reads the
\* attributes the enumeration handed out with the name
list_loop_win(f, no, m, recursive, ord, entries) ==
    IF entries = <<>> THEN <<>>
    ELSE LET name == Head(entries)
             rest == list_loop_win(f, no, m, recursive, ord, Tail(entries))
         IN  IF SkipsEntry(name) THEN rest
             ELSE LET fullPath == Path_win(m \o <<"\\">> \o name)
                      attrDir  == Lookup(f, Append(KeyOf("win", m), name)).kind
                                      \in {"dir", "dirlink"}
                  IN  <<fullPath>>
                      \o (IF recursive /\ attrDir
                          THEN list_win(f, no, fullPath, TRUE, ord)
                          ELSE <<>>)
                      \o rest

\* Directory::list(recursive), Windows
list_win(f, no, m, recursive, ord) ==
    IF ~OpenDirOk("win", f, no, m) THEN <<>>
    ELSE list_loop_win(f, no, m, recursive, ord, ReadDir(f, KeyOf("win", m), ord))

list(h, f, no, m, recursive, ord) ==
    IF h = "posix" THEN list_unix(f, no, m, recursive, ord)
    ELSE list_win(f, no, m, recursive, ord)

----------------------------------------------------------------------------
(* Directory::list: the enumeration handles it opens and closes *)

LogHandle(call, m) == [call |-> call, path |-> m, entries |-> <<>>, ok |-> TRUE]

\* slip: the handle is left open
closedir_forgotten(m) == <<>>

\* closedir(dir) after the loop
closedir(m) == <<LogHandle("closedir", m)>>

\* FindClose(hFind) after the loop
FindClose(m) == <<LogHandle("FindClose", m)>>

RECURSIVE list_handles_unix(_, _, _, _, _), list_handles_loop_unix(_, _, _, _, _, _)
\* the handle calls made from inside the while loop: those of the nested
\* Directory(fullPath).list(true)
list_handles_loop_unix(f, no, m, recursive, ord, entries) ==
    IF entries = <<>> THEN <<>>
    ELSE LET name == Head(entries)
             rest == list_handles_loop_unix(f, no, m, recursive, ord, Tail(entries))
         IN  IF SkipsEntry(name) THEN rest
             ELSE LET fullPath == Path_unix(m \o <<"/">> \o name)
                  IN  (IF recursive /\ isDirectory("posix", f, fullPath)
                       THEN list_handles_unix(f, no, fullPath, TRUE, ord)
                       ELSE <<>>)
                      \o rest

\* the handle calls of Directory::list(recursive), POSIX: none when opendir
\* fails, else opendir, the loop, closedir
list_handles_unix(f, no, m, recursive, ord) ==
    IF ~OpenDirOk("posix", f, no, m) THEN <<>>
    ELSE <<LogHandle("opendir", m)>>
         \o list_handles_loop_unix(f, no, m, recursive, ord,
                                   ReadDir(f, KeyOf("posix", m), ord))
         \o closedir(m)

RECURSIVE list_handles_win(_, _, _, _, _), list_handles_loop_win(_, _, _, _, _, _)
list_handles_loop_win(f, no, m, recursive, ord, entries) ==
    IF entries = <<>> THEN <<>>
    ELSE LET name == Head(entries)
             rest == list_handles_loop_win(f, no, m, recursive, ord, Tail(entries))
         IN  IF SkipsEntry(name) THEN rest
             ELSE LET fullPath == Path_win(m \o <<"\\">> \o name)
                      attrDir  == Lookup(f, Append(KeyOf("win", m), name)).kind
                                      \in {"dir", "dirlink"}
                  IN  (IF recursive /\ attrDir
                       THEN list_handles_win(f, no, fullPath, TRUE, ord)
                       ELSE <<>>)
                      \o rest

\* the handle calls of Directory::list(recursive), Windows: none when
\* FindFirstFileA hands out no handle, else FindFirstFileA, the loop, FindClose
list_handles_win(f, no, m, recursive, ord) ==
    IF ~OpenDirOk("win", f, no, m) THEN <<>>
    ELSE <<LogHandle("FindFirstFileA", m)>>
         \o list_handles_loop_win(f, no, m, recursive, ord,
                                  ReadDir(f, KeyOf("win", m), ord))
         \o FindClose(m)

list_handles(h, f, no, m, recursive, ord) ==
    IF h = "posix" THEN list_handles_unix(f, no, m, recursive, ord)
    ELSE list_handles_win(f, no, m, recursive, ord)

----------------------------------------------------------------------------
(* Operations on the filesystem *)

NoOp == [name |-> "none", path |-> <<>>, recursive |-> FALSE, dest |-> <<>>]

FsIdle ==
    /\ fs = [k \in Keys |-> NoEntry]
    /\ noOpen = {}
    /\ noDelete = {}
    /\ noSpace = FALSE
    /\ op = NoOp
    /\ stack = <<>>
    /\ result = "none"
    /\ snap = [k \in Keys |-> NoEntry]
    /\ log = <<>>
    /\ listed = <<>>

\* the strings a caller writes for the entry under a key
TargetStrings(h, key) ==
    {Join(key, separator(h))}
        \cup (IF Len(key) = 1 THEN {Join(key, separator(h)) \o <<separator(h)>>} ELSE {})

\* the directories a caller lists or removes: entries that exist, and names
\* missing from a directory that exists
Targets(f) == {k \in Keys : Raw(f, ParentKey(k)).kind = "dir"}

\* mkdir / CreateDirectoryA: what the host answers
mkdir(h, f, m) ==
    IF Lstat(h, f, m).kind # "none" THEN "EEXIST"
    ELSE IF Raw(f, ParentKey(Canon(f, KeyOf(h, m)))).kind # "dir" THEN "ENOENT"
    ELSE "OK"

\* the condition under which Directory::create throws
create_throws(errno) == errno # "OK" /\ errno # "EEXIST"

\* Directory(Path(s)).create()
Create(s) ==
    LET m     == Path(host, s)
        errno == mkdir(host, fs, m)
    IN  /\ result = "none"
        /\ errno = "OK" => EntryCount(fs) < MaxEntries
        /\ fs' = IF errno = "OK" THEN [fs EXCEPT ![Canon(fs, KeyOf(host, m))] = DirEntry]
                 ELSE fs
        /\ result' = IF create_throws(errno) THEN "error" ELSE "ok"
        /\ op' = [name |-> "create", path |-> m, recursive |-> FALSE, dest |-> <<>>]
        /\ snap' = fs
        /\ log' = <<>>
        /\ listed' = <<>>
        /\ UNCHANGED <<host, pathVars, noOpen, noDelete, noSpace, stack>>

\* std::ofstream file(path): opens and truncates, creating the file if absent
OpenForWriteOk(h, f, m) ==
    \/ Resolved(h, f, m).kind = "file"
    \/ /\ Resolved(h, f, m).kind = "none"
       /\ Follow(f, KeyOf(h, m)) \in DOMAIN f
       /\ Raw(f, ParentKey(Follow(f, KeyOf(h, m)))).kind = "dir"

\* what the host keeps of the bytes streamed into an open file: all of
\* them, or none when it has no room
Stored(full, c) == IF full THEN <<>> ELSE c

\* File(Path(s)).writeText(c): the outcome of file << content is not looked at
WriteText(s, c) ==
    LET m  == Path(host, s)
        ok == OpenForWriteOk(host, fs, m)
    IN  /\ result = "none"
        /\ (ok /\ Resolved(host, fs, m).kind = "none") => EntryCount(fs) < MaxEntries
        /\ fs' = IF ok THEN [fs EXCEPT ![Follow(fs, KeyOf(host, m))] =
                                            FileEntry(Stored(noSpace, c))]
                 ELSE fs
        /\ result' = IF ok THEN "ok" ELSE "error"
        /\ op' = [name |-> "writeText", path |-> m, recursive |-> FALSE, dest |-> <<>>]
        /\ snap' = fs
        /\ log' = <<>>
        /\ listed' = <<>>
        /\ UNCHANGED <<host, pathVars, noOpen, noDelete, noSpace, stack>>

\* the host (another actor, a permission change) starts refusing to open a
\* directory or to delete an entry
HostDeny(key) ==
    /\ result = "none"
    /\ fs[key].kind # "none"
    /\ Cardinality(noOpen) + Cardinality(noDelete) < MaxDenied
    /\ \/ fs[key].kind = "dir" /\ key \notin noOpen /\ noOpen' = noOpen \cup {key}
          /\ UNCHANGED noDelete
       \/ key \notin noDelete /\ noDelete' = noDelete \cup {key} /\ UNCHANGED noOpen
    /\ UNCHANGED <<host, pathVars, fs, noSpace, op, stack, result, snap, log, listed>>

\* Directory(Path(s)).list(recursive)
List(s, recursive, ord) ==
    LET m == Path(host, s)
    IN  /\ result = "none"
        /\ listed' = list(host, fs, noOpen, m, recursive, ord)
        /\ result' = "ok"
        /\ op' = [name |-> "list", path |-> m, recursive |-> recursive, dest |-> <<>>]
        /\ snap' = fs
        /\ log' = list_handles(host, fs, noOpen, m, recursive, ord)
        /\ UNCHANGED <<host, pathVars, fs, noOpen, noDelete, noSpace, stack>>

----------------------------------------------------------------------------
(* File::copy *)

\* a second content, to tell files apart
TextB == <<"y", "z">>

Texts == {TextA, TextB}

\* the paths the file operations are tried on: "d" and its entries
FileKeys == {k \in Keys : Len(k) <= 2}

\* std::ifstream src(path) opens
OpenForReadOk(h, f, m) == Resolved(h, f, m).kind = "file"

\* File::copy, POSIX, up to the streaming: the source is opened, then the
\* destination is opened and truncated; either failing throws
copy_open_unix(f, m, destination) ==
    IF ~OpenForReadOk("posix", f, m) THEN [fs |-> f, ok |-> FALSE]
    ELSE IF ~OpenForWriteOk("posix", f, destination) THEN [fs |-> f, ok |-> FALSE]
    ELSE [fs |-> [f EXCEPT ![KeyOf("posix", destination)] = FileEntry(<<>>)], ok |-> TRUE]

\* dst << src.rdbuf(): streams what the source holds at that moment
copy_stream_unix(opened, full, m, destination) ==
    LET bytes == opened[KeyOf("posix", m)].data
    IN  [opened EXCEPT ![KeyOf("posix", destination)] = FileEntry(Stored(full, bytes))]

\* File::copy, POSIX: the source is opened, then the destination is opened
\* and truncated, then dst << src.rdbuf() streams what the source holds at
\* that moment; the outcome of the streaming is not looked at
File_copy_unix(f, full, m, destination) ==
    LET o == copy_open_unix(f, m, destination)
    IN  IF ~o.ok THEN o
        ELSE [fs |-> copy_stream_unix(o.fs, full, m, destination), ok |-> TRUE]

\* File::copy, Windows: CopyFileA(source, destination, FALSE); the host refuses
\* to copy a file onto itself and reports a copy it could not store
File_copy_win(f, full, m, destination) ==
    LET sk == KeyOf("win", m)
        dk == KeyOf("win", destination)
        ok == /\ OpenForReadOk("win", f, m)
              /\ OpenForWriteOk("win", f, destination)
              /\ sk # dk
              /\ Stored(full, f[sk].data) = f[sk].data
    IN  IF ok THEN [fs |-> [f EXCEPT ![dk] = FileEntry(f[sk].data)], ok |-> TRUE]
        ELSE [fs |-> f, ok |-> FALSE]

File_copy(h, f, full, m, destination) ==
    IF h = "posix" THEN File_copy_unix(f, full, m, destination)
    ELSE File_copy_win(f, full, m, destination)

\* File(Path(s)).copy(Path(d)), for a source that is not a directory
Copy(s, d) ==
    LET m           == Path(host, s)
        destination == Path(host, d)
        r           == File_copy(host, fs, noSpace, m, destination)
    IN  /\ result = "none"
        /\ Stat(host, fs, m).kind # "dir"
        /\ EntryCount(r.fs) <= MaxEntries
        /\ fs' = r.fs
        /\ result' = IF r.ok THEN "ok" ELSE "error"
        /\ op' = [name |-> "copy", path |-> m, recursive |-> FALSE, dest |-> destination]
        /\ snap' = fs
        /\ log' = <<>>
        /\ listed' = <<>>
        /\ UNCHANGED <<host, pathVars, noOpen, noDelete, noSpace, stack>>

\* the host runs out of room for file data
HostFull ==
    /\ result = "none"
    /\ ~noSpace
    /\ noSpace' = TRUE
    /\ UNCHANGED <<host, pathVars, fs, noOpen, noDelete, op, stack, result, snap, log, listed>>

----------------------------------------------------------------------------
(* File::remove and Directory::remove *)

\* unlink / DeleteFileA succeeds: a regular file, or a link, which is
\* deleted itself, that the host lets go
unlink_ok(h, f, nd, m) ==
    /\ Lstat(h, f, m).kind \in {"file", "link"}
    /\ Canon(f, KeyOf(h, m)) \notin nd

\* rmdir / RemoveDirectoryA succeeds: an existing, empty directory other than
\* the working directory that the host lets go. rmdir refuses a link;
\* RemoveDirectoryA deletes a link made for a directory, not its target
rmdir_ok(h, f, nd, m) ==
    /\ \/ Lstat(h, f, m).kind = "dir" /\ HostChildren(f, KeyOf(h, m)) = {}
       \/ Lstat(h, f, m).kind = "dirlink"
    /\ KeyOf(h, m) # <<>>
    /\ Canon(f, KeyOf(h, m)) \notin nd

\* File::remove throws when the host call did not succeed
File_remove_throws(ok) == ~ok

\* slip: the result of rmdir is not looked at
Directory_remove_throws_never(ok) == FALSE

\* Directory::remove throws when the host call did not succeed
Directory_remove_throws(ok) == ~ok

\* slip: the loop stops one entry early
LoopDone_early(frame) == frame.i >= Len(frame.contents)

\* the range-for of Directory::remove has run through its contents
LoopDone(frame) == frame.i > Len(frame.contents)

\* slip: the loop catches the failure and goes on with the next entry
Unwind_swallowed(st) == [st EXCEPT ![Len(st)] = [@ EXCEPT !.i = @ + 1]]

\* an exception leaves every activation of Directory::remove: nothing catches it
Unwind(st) == <<>>

LogList(m, entries) == [call |-> "list", path |-> m, entries |-> entries, ok |-> TRUE]

LogDelete(call, m, ok) == [call |-> call, path |-> m, entries |-> <<>>, ok |-> ok]

Frame(m, contents) == [dir |-> m, contents |-> contents, i |-> 1]

Top(st) == st[Len(st)]

\* the caller's loop moves to its next entry when a callee returns
Advance(st) ==
    IF st = <<>> THEN <<>>
    ELSE [st EXCEPT ![Len(st)] = [@ EXCEPT !.i = @ + 1]]

Pop(st) == SubSeq(st, 1, Len(st) - 1)

Without(f, key) == [f EXCEPT ![key] = NoEntry]

\* Directory(Path(s)).remove(recursive) is called: with recursive set it
\* first takes list(false)
RemoveCall(s, recursive, ord) ==
    LET m        == Path(host, s)
        contents == IF recursive THEN list(host, fs, noOpen, m, FALSE, ord) ELSE <<>>
    IN  /\ result = "none"
        /\ stack' = <<Frame(m, contents)>>
        /\ log' = IF recursive
                  THEN Append(list_handles(host, fs, noOpen, m, FALSE, ord),
                              LogList(m, contents))
                  ELSE <<>>
        /\ result' = "running"
        /\ op' = [name |-> "remove", path |-> m, recursive |-> recursive, dest |-> <<>>]
        /\ snap' = fs
        /\ listed' = <<>>
        /\ UNCHANGED <<host, pathVars, fs, noOpen, noDelete, noSpace>>

\* loop body, entry.isDirectory(): Directory(entry).remove(true) is entered
RemoveDescend(ord) ==
    /\ result = "running"
    /\ ~LoopDone(Top(stack))
    /\ LET entry    == Top(stack).contents[Top(stack).i]
           contents == list(host, fs, noOpen, entry, FALSE, ord)
       IN  /\ isDirectory(host, fs, entry)
           /\ stack' = Append(stack, Frame(entry, contents))
           /\ log' = Append(log \o list_handles(host, fs, noOpen, entry, FALSE, ord),
                            LogList(entry, contents))
    /\ UNCHANGED <<host, pathVars, fs, noOpen, noDelete, noSpace, op, result, snap, listed>>

\* loop body, otherwise: File(entry).remove()
RemoveFile ==
    /\ result = "running"
    /\ ~LoopDone(Top(stack))
    /\ LET entry == Top(stack).contents[Top(stack).i]
           ok    == unlink_ok(host, fs, noDelete, entry)
       IN  /\ ~isDirectory(host, fs, entry)
           /\ fs' = IF ok THEN Without(fs, Canon(fs, KeyOf(host, entry))) ELSE fs
           /\ log' = Append(log, LogDelete("unlink", entry, ok))
           /\ stack' = IF File_remove_throws(ok) THEN Unwind(stack) ELSE Advance(stack)
           /\ result' = IF File_remove_throws(ok) /\ Unwind(stack) = <<>>
                        THEN "error" ELSE "running"
    /\ UNCHANGED <<host, pathVars, noOpen, noDelete, noSpace, op, snap, listed>>

\* after the loop: rmdir(m_path), then return to the caller's loop
RemoveSelf ==
    /\ result = "running"
    /\ LoopDone(Top(stack))
    /\ LET m  == Top(stack).dir
           ok == rmdir_ok(host, fs, noDelete, m)
       IN  /\ fs' = IF ok THEN Without(fs, Canon(fs, KeyOf(host, m))) ELSE fs
           /\ log' = Append(log, LogDelete("rmdir", m, ok))
           /\ stack' = IF Directory_remove_throws(ok) THEN Unwind(stack)
                       ELSE Advance(Pop(stack))
           /\ result' = IF Directory_remove_throws(ok) THEN "error"
                        ELSE IF Pop(stack) = <<>> THEN "ok"
                        ELSE "running"
    /\ UNCHANGED <<host, pathVars, noOpen, noDelete, noSpace, op, snap, listed>>

----------------------------------------------------------------------------
(* File::move *)

\* rename(source, destination): the host moves a regular file onto an absent
\* name or another regular file of an existing directory; it cannot when the
\* destination lies on another device (xdev) or the host holds on to the
\* source; a rename onto the file itself succeeds and changes nothing
rename_ok(f, nd, xdev, m, destination) ==
    /\ Stat("posix", f, m).kind = "file"
    /\ OpenForWriteOk("posix", f, destination)
    /\ \/ KeyOf("posix", m) = KeyOf("posix", destination)
       \/ ~xdev /\ KeyOf("posix", m) \notin nd

\* MoveFileA(source, destination): the host moves a regular file onto an
\* absent name of an existing directory, copying it when the destination
\* lies on another volume; it refuses an existing destination other than
\* the file itself
MoveFileA_ok(f, nd, full, xdev, m, destination) ==
    /\ Stat("win", f, m).kind = "file"
    /\ \/ KeyOf("win", m) = KeyOf("win", destination)
       \/ /\ Stat("win", f, destination).kind = "none"
          /\ OpenForWriteOk("win", f, destination)
          /\ KeyOf("win", m) \notin nd
          /\ xdev => Stored(full, f[KeyOf("win", m)].data) = f[KeyOf("win", m)].data

HostMoveOk(h, f, nd, full, xdev, m, destination) ==
    IF h = "posix" THEN rename_ok(f, nd, xdev, m, destination)
    ELSE MoveFileA_ok(f, nd, full, xdev, m, destination)

\* the tree after a host move that succeeded
Moved(h, f, m, destination) ==
    LET sk == KeyOf(h, m)
        dk == KeyOf(h, destination)
    IN  IF sk = dk THEN f ELSE [f EXCEPT ![dk] = f[sk], ![sk] = NoEntry]

\* what File::move does when the host move failed: the POSIX code goes on
\* with copy(destination), the Windows code throws
File_move_unix(ok) == IF ok THEN "ok" ELSE "running"

File_move_win(ok) == IF ok THEN "ok" ELSE "error"

File_move(h, ok) == IF h = "posix" THEN File_move_unix(ok) ELSE File_move_win(ok)

LogMove(call, m, ok) == [call |-> call, path |-> m, entries |-> <<>>, ok |-> ok]

Moving == op.name = "move" /\ result = "running"

\* File(Path(s)).move(Path(d)) is called, for a source that is not a
\* directory: the host move is tried
MoveCall(s, d, xdev) ==
    LET m           == Path(host, s)
        destination == Path(host, d)
        ok          == HostMoveOk(host, fs, noDelete, noSpace, xdev, m, destination)
    IN  /\ result = "none"
        /\ Stat(host, fs, m).kind # "dir"
        /\ fs' = IF ok THEN Moved(host, fs, m, destination) ELSE fs
        /\ log' = <<LogMove("rename", m, ok)>>
        /\ result' = File_move(host, ok)
        /\ op' = [name |-> "move", path |-> m, recursive |-> FALSE, dest |-> destination]
        /\ snap' = fs
        /\ listed' = <<>>
        /\ UNCHANGED <<host, pathVars, noOpen, noDelete, noSpace, stack>>

\* the fallback, copy(destination): source and destination are opened; a
\* failure throws out of move
MoveCopyOpen ==
    /\ Moving
    /\ Len(log) = 1
    /\ LET o == copy_open_unix(fs, op.path, op.dest)
       IN  /\ EntryCount(o.fs) <= MaxEntries
           /\ fs' = o.fs
           /\ log' = Append(log, LogMove("open", op.dest, o.ok))
           /\ result' = IF o.ok THEN "running" ELSE "error"
    /\ UNCHANGED <<host, pathVars, noOpen, noDelete, noSpace, op, stack, snap, listed>>

\* the fallback, copy(destination): dst << src.rdbuf(), outcome not looked at
MoveCopyStream ==
    /\ Moving
    /\ Len(log) = 2
    /\ fs' = copy_stream_unix(fs, noSpace, op.path, op.dest)
    /\ log' = Append(log, LogMove("stream", op.dest,
                                 fs'[KeyOf(host, op.dest)].data = fs[KeyOf(host, op.path)].data))
    /\ UNCHANGED <<host, pathVars, noOpen, noDelete, noSpace, op, stack, result, snap, listed>>

\* the fallback, remove(): the source is unlinked
MoveRemove ==
    /\ Moving
    /\ Len(log) = 3
    /\ LET ok == unlink_ok(host, fs, noDelete, op.path)
       IN  /\ fs' = IF ok THEN Without(fs, KeyOf(host, op.path)) ELSE fs
           /\ log' = Append(log, LogDelete("unlink", op.path, ok))
           /\ result' = IF File_remove_throws(ok) THEN "error" ELSE "ok"
    /\ UNCHANGED <<host, pathVars, noOpen, noDelete, noSpace, op, stack, snap, listed>>

----------------------------------------------------------------------------
(* Symbolic links *)

\* the paths the operations are tried on when the tree can hold a link
LinkKeys == {k \in Keys : Len(k) <= 3 /\ (Len(k) = 3 => k[3] = <<"a">>)}

\* another actor makes a link under key to an existing file or directory
\* that does not lie on the way to key; the tree holds one link at a time, so
\* that following links always ends
HostSymlink(key, target) ==
    /\ result = "none"
    /\ \A k \in Keys : fs[k].kind \notin LinkKinds
    /\ fs[key].kind = "none"
    /\ Raw(fs, ParentKey(key)).kind = "dir"
    /\ fs[target].kind \in {"dir", "file"}
    /\ Len(target) <= Len(key) => SubSeq(key, 1, Len(target)) # target
    /\ fs' = [fs EXCEPT ![key] =
                 LinkEntry(IF host = "win" /\ fs[target].kind = "dir" THEN "dirlink"
                           ELSE "link", target)]
    /\ UNCHANGED <<host, pathVars, noOpen, noDelete, noSpace, op, stack, result, snap, log,
                   listed>>

\* the caller has the outcome of the operation and goes on; the record of
\* the finished call is dropped
Return ==
    /\ result \in {"ok", "error"}
    /\ op' = NoOp
    /\ result' = "none"
    /\ snap' = [k \in Keys |-> NoEntry]
    /\ log' = <<>>
    /\ listed' = <<>>
    /\ UNCHANGED <<host, pathVars, fs, noOpen, noDelete, noSpace, stack>>

Init ==
    /\ host \in Hosts
    /\ raw = <<>>
    /\ pth = <<>>
    /\ prev = <<>>
    /\ pathOp = "none"
    /\ FsIdle

Next ==
    \/ \E k \in Keys : Create(Join(k, separator(host)))
    \/ \E k \in Keys : WriteText(Join(k, separator(host)), TextA)
    \/ \E k \in Keys : HostDeny(k)
    \/ \E k \in Targets(fs) : \E s \in TargetStrings(host, k) : \E recursive \in BOOLEAN :
           \E ord \in EnumOrders : List(s, recursive, ord)
    \/ \E k \in Targets(fs) : \E s \in TargetStrings(host, k) : \E recursive \in BOOLEAN :
           \E ord \in EnumOrders : RemoveCall(s, recursive, ord)
    \/ \E ord \in EnumOrders : RemoveDescend(ord)
    \/ RemoveFile
    \/ RemoveSelf
    \/ Return

Spec == Init /\ [][Next]_vars

\* the file operations, on "d" and its entries
NextFile ==
    \/ \E k \in FileKeys : Create(Join(k, separator(host)))
    \/ \E k \in FileKeys : \E c \in Texts : WriteText(Join(k, separator(host)), c)
    \/ \E k \in FileKeys : \E d \in FileKeys :
           Copy(Join(k, separator(host)), Join(d, separator(host)))
    \/ \E k \in FileKeys : \E d \in FileKeys : \E xdev \in BOOLEAN :
           MoveCall(Join(k, separator(host)), Join(d, separator(host)), xdev)
    \/ MoveCopyOpen
    \/ MoveCopyStream
    \/ MoveRemove
    \/ \E k \in FileKeys : HostDeny(k)
    \/ HostFull
    \/ Return

SpecFile == Init /\ [][NextFile]_vars

\* the directory operations on trees that can hold a symbolic link
NextLink ==
    \/ \E k \in LinkKeys : Create(Join(k, separator(host)))
    \/ \E k \in LinkKeys : WriteText(Join(k, separator(host)), TextA)
    \/ \E k \in LinkKeys : \E target \in LinkKeys : HostSymlink(k, target)
    \/ \E k \in LinkKeys : \E recursive \in BOOLEAN : \E ord \in EnumOrders :
           List(Join(k, separator(host)), recursive, ord)
    \/ \E k \in LinkKeys : \E recursive \in BOOLEAN : \E ord \in EnumOrders :
           RemoveCall(Join(k, separator(host)), recursive, ord)
    \/ \E ord \in EnumOrders : RemoveDescend(ord)
    \/ RemoveFile
    \/ RemoveSelf
    \/ Return

SpecLink == Init /\ [][NextLink]_vars

----------------------------------------------------------------------------
(* Path values: construction, parent(), and the entry Directory::list builds *)

InitPath ==
    /\ host \in Hosts
    /\ raw \in RawStrings
    /\ pth = <<>>
    /\ prev = <<>>
    /\ pathOp = "none"
    /\ FsIdle

\* Path p(raw)
Construct ==
    /\ pathOp = "none"
    /\ pth' = Path(host, raw)
    /\ prev' = raw
    /\ pathOp' = "construct"
    /\ UNCHANGED <<host, raw, fsVars>>

\* Path(p.toString())
Reconstruct ==
    /\ pathOp = "construct"
    /\ pth' = Path(host, pth)
    /\ prev' = pth
    /\ pathOp' = "reconstruct"
    /\ UNCHANGED <<host, raw, fsVars>>

\* p.parent()
Parent ==
    /\ pathOp \in {"construct", "list"}
    /\ pth' = parent(host, pth)
    /\ prev' = pth
    /\ pathOp' = "parent"
    /\ UNCHANGED <<host, raw, fsVars>>

\* Path fullPath(m_path.toString() + "/" + name) of Directory::list
ListEntry(name) ==
    /\ pathOp = "construct"
    /\ pth' = Path(host, pth \o <<separator(host)>> \o name)
    /\ prev' = pth
    /\ pathOp' = "list"
    /\ UNCHANGED <<host, raw, fsVars>>

\* the string p.parent().toString() + separator + p.filename(), left raw
RoundTrip ==
    /\ pathOp \in {"construct", "list", "parent"}
    /\ pth' = parent(host, pth) \o <<separator(host)>> \o filename(host, pth)
    /\ prev' = pth
    /\ pathOp' = "roundtrip"
    /\ UNCHANGED <<host, raw, fsVars>>

NextPath ==
    \/ Construct
    \/ Reconstruct
    \/ Parent
    \/ \E name \in Names : ListEntry(name)
    \/ RoundTrip

SpecPath == InitPath /\ [][NextPath]_vars

----------------------------------------------------------------------------
(* Properties of Directory::list *)

IsPrefix(a, b) == Len(a) <= Len(b) /\ SubSeq(b, 1, Len(a)) = a

\* the entries below the entry under key
Descendants(f, key) ==
    {k \in DOMAIN f : Len(k) > Len(key) /\ IsPrefix(key, k) /\ f[k].kind # "none"}

\* the host opens every directory of the tree under key, key included
AllOpenable(f, no, key) ==
    \A k \in DOMAIN f : (IsPrefix(key, k) /\ f[k].kind = "dir") => k \notin no

OpKey == KeyOf(host, op.path)

\* the entries of a listing as the host resolves them
KeysOf(L) == [i \in 1..Len(L) |-> KeyOf(host, L[i])]

\* L is the depth-first pre-order flattening of the tree under root: every
\* descendant once, each entry followed at once by all of its own descendants
IsPreOrder(f, root, L) ==
    /\ {L[i] : i \in 1..Len(L)} = Descendants(f, root)
    /\ \A i, j \in 1..Len(L) : L[i] = L[j] => i = j
    /\ \A i \in 1..Len(L) :
          LET n == Cardinality(Descendants(f, L[i]))
          IN  /\ i + n <= Len(L)
              /\ {L[j] : j \in (i + 1)..(i + n)} = Descendants(f, L[i])

ListedRecursively ==
    /\ op.name = "list" /\ op.recursive /\ result = "ok"
    /\ Directory_exists(host, fs, op.path)

ListedFlat ==
    /\ op.name = "list" /\ ~op.recursive /\ result = "ok"
    /\ Directory_exists(host, fs, op.path)

\* L holds exactly the immediate children of the directory under key, once each
IsChildren(f, key, L) ==
    /\ {L[i] : i \in 1..Len(L)} = {Append(key, name) : name \in HostChildren(f, key)}
    /\ Len(L) = Cardinality(HostChildren(f, key))

\* no entry of L is named "." or ".."
NoDots(L) == \A i \in 1..Len(L) : filename(host, L[i]) \notin {Dot, DotDot}

\* nothing list returned, and nothing remove(true) enumerated, is "." or ".."
NeverDots ==
    /\ NoDots(listed)
    /\ \A i \in 1..Len(stack) : NoDots(stack[i].contents)
    /\ \A i \in 1..Len(log) : NoDots(log[i].entries)

\* C8 (as claimed): for every existing directory D, list(false) returns
\* exactly the immediate children of D, one entry each and nothing deeper, and
\* no entry list returns or remove(true) visits is "." or "..".
C8_ListImmediateChildren ==
    /\ ListedFlat => IsChildren(fs, OpKey, KeysOf(listed))
    /\ NeverDots

\* C8 (amended): the same, for every existing directory D that the host opens
\* for enumeration.
C8_ListImmediateChildrenWhenOpenable ==
    /\ (ListedFlat /\ OpKey \notin noOpen) => IsChildren(fs, OpKey, KeysOf(listed))
    /\ NeverDots

\* a flat listing of a directory with two children, one of them a directory
\* with entries of its own
C8_Witness ==
    /\ ListedFlat /\ OpKey \notin noOpen
    /\ Len(listed) = 2
    /\ \E i \in 1..Len(listed) : Descendants(fs, KeysOf(listed)[i]) # {}

----------------------------------------------------------------------------
(* Properties of Directory::remove *)

RemovedRecursively == op.name = "remove" /\ op.recursive

\* C2: when Directory(D).remove(true) returns without error, D and every
\* descendant directory and file of D no longer exist.
C2_RemoveLeavesNothing ==
    (RemovedRecursively /\ result = "ok")
        => \A k \in Keys :
              IsPrefix(OpKey, k)
                  => /\ ~exists(host, fs, Join(k, separator(host)))
                     /\ ~Directory_exists(host, fs, Join(k, separator(host)))
                     /\ ~File_exists(host, fs, Join(k, separator(host)))

\* a recursive removal that returned, of a tree three levels deep with a file
\* on its deepest level
C2_Witness ==
    /\ RemovedRecursively /\ result = "ok"
    /\ \E k \in Keys :
          /\ IsPrefix(OpKey, k) /\ Len(k) = Len(OpKey) + 3
          /\ snap[k].kind = "file"

IsDeletion(r) == r.call \in {"unlink", "rmdir"}

\* the entry e was deleted by a host call between log positions i and j
DeletedBetween(e, i, j) ==
    \E n \in (i + 1)..(j - 1) : IsDeletion(log[n]) /\ log[n].path = e /\ log[n].ok

\* C3: deletion is depth-first post-order: the host call that removes a
\* directory X (the root included) is issued only after every child of X that
\* was enumerated has been deleted.
C3_RemovePostOrder ==
    RemovedRecursively =>
        \A j \in 1..Len(log) :
            log[j].call = "rmdir" =>
                \A i \in 1..(j - 1) :
                    (log[i].call = "list" /\ log[i].path = log[j].path) =>
                        \A n \in 1..Len(log[i].entries) :
                            /\ DeletedBetween(log[i].entries[n], i, j)
                            /\ ~exists(host, fs, log[i].entries[n])

\* a directory with two enumerated children, one a directory, has been removed
C3_Witness ==
    /\ RemovedRecursively
    /\ \E i, j \in 1..Len(log) :
          /\ i < j /\ log[i].call = "list" /\ log[j].call = "rmdir" /\ log[j].ok
          /\ log[i].path = log[j].path
          /\ Len(log[i].entries) = 2
          /\ \E n \in (i + 1)..(j - 1) : log[n].call = "rmdir"

\* a host call that failed to delete a child of the directory being removed
ChildDeletionFailed(j) ==
    IsDeletion(log[j]) /\ ~log[j].ok /\ log[j].path # op.path

\* C4: when the deletion of a child fails during remove(true), the whole
\* operation fails at that point: no host call follows the first failure,
\* what was deleted before stays deleted, and the root directory still exists.
C4_RemoveStopsAtFailure ==
    RemovedRecursively =>
        \A j \in 1..Len(log) :
            ChildDeletionFailed(j) =>
                /\ j = Len(log)
                /\ result = "error"
                /\ stack = <<>>
                /\ Directory_exists(host, fs, op.path)
                /\ \A i \in 1..(j - 1) :
                      (IsDeletion(log[i]) /\ log[i].ok) => ~exists(host, fs, log[i].path)
                /\ \A k \in Keys :
                      fs[k] # snap[k] =>
                          \E i \in 1..(j - 1) :
                              IsDeletion(log[i]) /\ log[i].ok /\ KeyOf(host, log[i].path) = k

\* a removal that failed on a child after it had already deleted an entry
C4_Witness ==
    /\ RemovedRecursively /\ result = "error"
    /\ \E j \in 1..Len(log) :
          /\ ChildDeletionFailed(j)
          /\ \E i \in 1..(j - 1) : IsDeletion(log[i]) /\ log[i].ok

----------------------------------------------------------------------------
(* Properties of Directory::create *)

Created == op.name = "create"

\* C9: create() returns without error when the path is newly created as a
\* directory or already is one, and fails with a create error otherwise, in
\* particular when the path exists as a regular file and when the parent
\* directory is missing; when it fails nothing is created.
C9_CreateContract ==
    Created =>
        /\ (snap[OpKey].kind = "dir"
               \/ (snap[OpKey].kind = "none" /\ Lookup(snap, ParentKey(OpKey)).kind = "dir"))
              => (result = "ok" /\ fs[OpKey].kind = "dir")
        /\ (snap[OpKey].kind = "file"
               \/ Lookup(snap, ParentKey(OpKey)).kind # "dir")
              => (result = "error" /\ fs = snap)

----------------------------------------------------------------------------
(* Properties of File::copy *)

DestKey == KeyOf(host, op.dest)

\* a copy of an existing regular file has returned without error
Copied == op.name = "copy" /\ result = "ok" /\ snap[OpKey].kind = "file"

\* C10: for every existing regular file f with content c and every
\* destination dest (absent, existing, or the same file as f), whenever
\* f.copy(dest) returns without error, File(dest).exists() is true, File(dest)
\* reads back c, and f still exists with content c.
C10_CopyPreservesContent ==
    Copied =>
        /\ File_exists(host, fs, op.dest)
        /\ fs[DestKey].data = snap[OpKey].data
        /\ File_exists(host, fs, op.path)
        /\ fs[OpKey].data = snap[OpKey].data

----------------------------------------------------------------------------
(* Properties of the enumeration handles *)

IsHandleOpen(r) == r.call \in {"opendir", "FindFirstFileA"}

IsHandleClose(r) == r.call \in {"closedir", "FindClose"}

\* the handles that the calls log[1..n] have opened and not closed
OpenHandles(n) ==
    Cardinality({i \in 1..n : IsHandleOpen(log[i])})
        - Cardinality({i \in 1..n : IsHandleClose(log[i])})

\* a list or remove call has returned, with or without an error
Returned == op.name \in {"list", "remove"} /\ result \in {"ok", "error"}

\* C13: every enumeration handle opened during a Directory::list or
\* Directory::remove call, on any tree, openable or not, is closed by the
\* time the call returns, also when it returns with an error, so that no
\* handle is open between operations; no handle is closed that was not open.
C13_HandlesClosed ==
    /\ Returned => OpenHandles(Len(log)) = 0
    /\ \A n \in 1..Len(log) : OpenHandles(n) >= 0

\* a remove(true) that opened the handles of two directories has ended in an error
C13_Witness ==
    /\ op.name = "remove" /\ result = "error"
    /\ Cardinality({i \in 1..Len(log) : IsHandleOpen(log[i])}) >= 2

\* a recursive listing has held the handles of a directory and of its
\* sub-directory open at the same time
C13_NestedHandles ==
    /\ op.name = "list" /\ result = "ok"
    /\ \E n \in 1..Len(log) : OpenHandles(n) >= 2

----------------------------------------------------------------------------
(* Properties of Directory::remove on trees with a symbolic link *)

\* C15: Directory(D).remove(true) on a directory D deletes only entries
\* inside D's own subtree: every file and directory that is not D or a
\* descendant of D is left unchanged, during the call and when it has
\* succeeded or failed, also when D contains a link that the metadata query
\* reports as a directory and whose target lies outside D.
C15_RemoveStaysInside ==
    (op.name = "remove" /\ op.recursive /\ snap[OpKey].kind = "dir") =>
        \A k \in Keys : ~IsPrefix(OpKey, k) => fs[k] = snap[k]

----------------------------------------------------------------------------
(* Properties of File::move *)

\* a move of an existing regular file has returned without error
MovedFile == op.name = "move" /\ result = "ok" /\ snap[OpKey].kind = "file"

\* C11: for every existing regular file f with content c and every
\* destination dest, whenever f.move(dest) returns without error,
\* File(dest).exists() is true, f.exists() at the original location is false,
\* and File(dest) reads back exactly c.
C11_MovePostcondition ==
    MovedFile =>
        /\ File_exists(host, fs, op.dest)
        /\ ~File_exists(host, fs, op.path)
        /\ fs[DestKey].data = snap[OpKey].data

\* the host calls of a move so far, by name
MoveCalls == [i \in 1..Len(log) |-> log[i].call]

\* C12: on both implementations File::move first tries the host's rename, and
\* whenever that rename fails move does not report failure at that point but
\* goes on to copy the file to dest and then to delete the source, in that
\* order.
C12_MoveFallsBack ==
    (op.name = "move" /\ snap[OpKey].kind = "file") =>
        /\ log # <<>> /\ log[1].call = "rename"
        /\ ~log[1].ok =>
              /\ Len(log) = 1 => result = "running"
              /\ \E n \in 1..4 : MoveCalls = SubSeq(<<"rename", "open", "stream", "unlink">>, 1, n)
              /\ result = "ok" => Len(log) = 4

\* the content the moved file had when move was called is held in full by e
HoldsOriginal(e) == e.kind = "file" /\ e.data = snap[OpKey].data

\* C14: in every state during and after move(dest) of an existing regular
\* file, the content it had is held in full by the source or by the
\* destination; the source is gone only when the destination holds the
\* content, and when move ends in an error the source is intact.
C14_MoveKeepsContent ==
    (op.name = "move" /\ snap[OpKey].kind = "file") =>
        /\ HoldsOriginal(fs[OpKey]) \/ HoldsOriginal(fs[DestKey])
        /\ fs[OpKey].kind = "none" => HoldsOriginal(fs[DestKey])
        /\ result = "error" => HoldsOriginal(fs[OpKey])

----------------------------------------------------------------------------
(* Properties of Path values *)

\* pth is a Path value (not the raw string of a round trip)
IsPathValue == pathOp \in {"construct", "reconstruct", "parent", "list"}

OnlyNativeSeparator(h, s) == \A i \in 1..Len(s) : s[i] \in {"/", "\\"} => s[i] = separator(h)

\* C5: for every input string over an alphabet with both separators,
\* Path(s).toString() holds only the host's native separator, and
\* constructing a Path from it again gives the same string.
C5_SeparatorPureIdempotent ==
    /\ pathOp = "construct" => OnlyNativeSeparator(host, pth)
    /\ pathOp = "reconstruct" => pth = prev

\* C6: every Path value (from a raw string, by parent(), or as built by
\* Directory::list) does not end in a separator unless it is a root path,
\* on both implementations.
C6_NoTrailingSeparator ==
    IsPathValue => (EndsInSeparator(host, pth) => DenotesRoot(host, pth))

\* C7: for every non-root path p (a non-empty string), p.parent().toString()
\* + separator + p.filename() denotes the same location as p: the same
\* segments from the same starting point once "." segments and repeated
\* separators are dropped.
C7_ParentFilenameRoundTrip ==
    (pathOp = "roundtrip" /\ prev # <<>> /\ ~DenotesRoot(host, prev))
        => Location(host, pth) = Location(host, prev)

====
